---- MODULE Spec2Model ----
(***************************************************************************)
(* A model of lib/zip-writer.js: the ZipWriter class (add, close) and the  *)
(* entry encoder createFileEntry.  Byte arrays are sequences of 0..255,    *)
(* strings are sequences of UTF-16 code units, and every await of the      *)
(* source is a point where another call may run.                           *)
(***************************************************************************)
EXTENDS Integers, Sequences, FiniteSets, TLC

(***************************************************************************)
(* Bounds of the model.                                                    *)
(***************************************************************************)
MaxCalls == 2
MaxCloses == 1
MaxContentLen == 1

(***************************************************************************)
(* Typed arrays and DataView.                                              *)
(***************************************************************************)
Zeros(n) == [i \in 1..n |-> 0]

SetUint8(arr, off, v) == [arr EXCEPT ![off + 1] = v % 256]

\* DataView.setUint16(off, v, littleEndian): v is taken modulo 2^16
SetUint16(arr, off, v, le) ==
    LET w == v % 65536
        hi == w \div 256
        lo == w % 256
    IN  IF le THEN [arr EXCEPT ![off + 1] = lo, ![off + 2] = hi]
              ELSE [arr EXCEPT ![off + 1] = hi, ![off + 2] = lo]

\* DataView.setUint32(off, v, littleEndian), for 0 <= v < 2^31
SetUint32(arr, off, v, le) ==
    LET b0 == v % 256
        b1 == (v \div 256) % 256
        b2 == (v \div 65536) % 256
        b3 == (v \div 16777216) % 256
    IN  IF le THEN [arr EXCEPT ![off + 1] = b0, ![off + 2] = b1,
                               ![off + 3] = b2, ![off + 4] = b3]
              ELSE [arr EXCEPT ![off + 1] = b3, ![off + 2] = b2,
                               ![off + 3] = b1, ![off + 4] = b0]

\* TypedArray.prototype.set(src, off)
SetArray(arr, src, off) ==
    [i \in 1..Len(arr) |->
        IF i > off /\ i <= off + Len(src) THEN src[i - off] ELSE arr[i]]

GetUint16LE(arr, off) == arr[off + 1] + 256 * arr[off + 2]

GetUint32LE(arr, off) ==
    arr[off + 1] + 256 * arr[off + 2] + 65536 * arr[off + 3] + 16777216 * arr[off + 4]

GetUint32BE(arr, off) ==
    arr[off + 4] + 256 * arr[off + 3] + 65536 * arr[off + 2] + 16777216 * arr[off + 1]

Slice(arr, off, n) == [i \in 1..n |-> arr[off + i]]

(***************************************************************************)
(* JavaScript integer operators on the small non-negative values used.     *)
(***************************************************************************)
RECURSIVE BitOr(_, _)
BitOr(a, b) ==
    IF a = 0 THEN b
    ELSE IF b = 0 THEN a
    ELSE (IF a % 2 = 1 \/ b % 2 = 1 THEN 1 ELSE 0) + 2 * BitOr(a \div 2, b \div 2)

RECURSIVE Pow2(_)
Pow2(n) == IF n = 0 THEN 1 ELSE 2 * Pow2(n - 1)

Shl(a, n) == a * Pow2(n)

(***************************************************************************)
(* Strings.                                                                *)
(***************************************************************************)
\* the code units String.prototype.trim removes
WhiteSpace == {9, 10, 11, 12, 13, 32, 160, 5760, 8232, 8233, 8239, 8287, 12288, 65279}
                 \cup (8192..8202)

RECURSIVE TrimStart(_)
TrimStart(s) ==
    IF s # <<>> /\ Head(s) \in WhiteSpace THEN TrimStart(Tail(s)) ELSE s

RECURSIVE TrimEnd(_)
TrimEnd(s) ==
    IF s # <<>> /\ s[Len(s)] \in WhiteSpace THEN TrimEnd(SubSeq(s, 1, Len(s) - 1)) ELSE s

Trim(s) == TrimEnd(TrimStart(s))

Slash == 47

\* unescape(encodeURIComponent(c)) for one code unit outside the surrogates
EncodeUnit(u) ==
    IF u < 128 THEN <<u>>
    ELSE IF u < 2048 THEN <<192 + (u \div 64), 128 + (u % 64)>>
    ELSE <<224 + (u \div 4096), 128 + ((u \div 64) % 64), 128 + (u % 64)>>

RECURSIVE encodeUTF8(_)
encodeUTF8(string) ==
    IF string = <<>> THEN <<>>
    ELSE EncodeUnit(Head(string)) \o encodeUTF8(Tail(string))

\* charCodeAt of every unit of the string
getBytes(string) == [i \in 1..Len(string) |-> string[i]]

(***************************************************************************)
(* createFileEntry, lines 118-190.  An options object is a record          *)
(*   [bufferedWrite, directory : BOOLEAN,                                  *)
(*    password : [defined : BOOLEAN, kind : {"string","bytes"}, length],    *)
(*    level : [defined : BOOLEAN, value], comment, extraField : sequences,  *)
(*    lastModDate : [defined : BOOLEAN, date], version : Nat]               *)
(* where an empty comment, an empty extraField and version 0 stand for the *)
(* absent (falsy) option.  A reader is [present : BOOLEAN, size : Nat].    *)
(***************************************************************************)
Undefined == -1

\* line 123: options.password && options.password.length && options.password
outputPasswordOf(options) ==
    options.password.defined /\ options.password.length # 0

\* line 124: options.level !== 0 && !options.directory
compressedOf(options) ==
    ~(options.level.defined /\ options.level.value = 0) /\ ~options.directory

\* line 125: options.password === undefined || !options.password.length
outputSignedOf(options) ==
    ~options.password.defined \/ options.password.length = 0

\* line 170: Boolean(options.password); an empty string is falsy, an empty
\* byte array is an object and so truthy
outputEncryptedOf(options) ==
    options.password.defined
        /\ (options.password.kind = "bytes" \/ options.password.length # 0)

\* line 136
AesExtraField == <<1, 153, 7, 0, 2, 0, 65, 69, 3, 0, 0>>

\* lines 133-148: the version, flags and method bytes, and the extra field
HeaderSignature(headerArray, options) ==
    IF outputPasswordOf(options)
    THEN SetUint8(SetUint32(headerArray, 0, 855640320, FALSE), 4, 99)
    ELSE LET h1 == SetUint32(headerArray, 0, 335546376, FALSE)
             h2 == IF options.version # 0 THEN SetUint8(h1, 0, options.version) ELSE h1
         IN  IF compressedOf(options) THEN SetUint16(h2, 4, 2048, FALSE) ELSE h2

EntryExtraField(options) ==
    IF outputPasswordOf(options)
    THEN IF compressedOf(options) THEN [AesExtraField EXCEPT ![10] = 8]
                                  ELSE AesExtraField
    ELSE options.extraField

\* line 149 with the seconds rounded to the nearest even second, not down
DosTimeRounded(date) ==
    BitOr(Shl(BitOr(Shl(date.hours, 6), date.minutes), 5), (date.seconds + 1) \div 2)

\* line 149
DosTime(date) ==
    BitOr(Shl(BitOr(Shl(date.hours, 6), date.minutes), 5), date.seconds \div 2)

\* line 150; date.month is getMonth(), counted from 0
DosDate(date) ==
    BitOr(Shl(BitOr(Shl(date.year - 1980, 4), date.month + 1), 5), date.day)

\* lines 119-153: the entry record and its 26-byte header as they are when
\* the header block is written
NewFileEntry(name, options, date) ==
    LET filename == getBytes(encodeUTF8(name))
        extraField == EntryExtraField(options)
        h1 == HeaderSignature(Zeros(26), options)
        h2 == SetUint16(h1, 6, DosTime(date), TRUE)
        h3 == SetUint16(h2, 8, DosDate(date), TRUE)
        h4 == SetUint16(h3, 22, Len(filename), TRUE)
        h5 == SetUint16(h4, 24, Len(extraField), TRUE)
    IN  [headerArray |-> h5,
         directory   |-> options.directory,
         filename    |-> filename,
         comment     |-> getBytes(encodeUTF8(options.comment)),
         extraField  |-> extraField,
         length      |-> Undefined,
         offset      |-> Undefined]

\* lines 154-159: the local file header block
FileDataArray(fileEntry) ==
    LET n == Len(fileEntry.filename)
        a1 == SetUint32(Zeros(30 + n + Len(fileEntry.extraField)), 0, 1347093252, FALSE)
        a2 == SetArray(a1, fileEntry.headerArray, 4)
        a3 == SetArray(a2, fileEntry.filename, 30)
    IN  SetArray(a3, fileEntry.extraField, 30 + n)

\* variant: the password is not looked at
PatchSignatureAlways(options, result) == result.hasSignature

\* line 178: the checksum is patched only for an entry without password
\* whose pipeline result carries a signature
PatchSignature(options, result) ==
    ~outputPasswordOf(options) /\ result.hasSignature

\* variant: the footer's values are not patched back into the header
PatchHeaderUnpatched(headerArray, options, reader, result) == headerArray

\* lines 177-186, the header copy; result is [length, hasSignature, signature]
PatchHeader(headerArray, options, reader, result) ==
    IF ~reader.present THEN headerArray
    ELSE LET h1 == IF PatchSignature(options, result)
                   THEN SetUint32(headerArray, 10, result.signature, TRUE)
                   ELSE headerArray
             h2 == SetUint32(h1, 14, result.length, TRUE)
         IN  SetUint32(h2, 18, reader.size, TRUE)

\* lines 174-186, the 16-byte footer
FooterArray(options, reader, result) ==
    LET f0 == SetUint32(Zeros(16), 0, 1347094280, FALSE)
    IN  IF ~reader.present THEN f0
        ELSE LET f1 == IF PatchSignature(options, result)
                       THEN SetUint32(f0, 4, result.signature, TRUE)
                       ELSE f0
                 f2 == SetUint32(f1, 8, result.length, TRUE)
             IN  SetUint32(f2, 12, reader.size, TRUE)

\* line 188
EntryLength(fileEntry, reader, result) ==
    (30 + Len(fileEntry.filename) + Len(fileEntry.extraField))
        + (IF reader.present THEN result.length ELSE 0) + 16

NoResult == [length |-> 0, hasSignature |-> FALSE, signature |-> 0]

(***************************************************************************)
(* The state of one ZipWriter, of its shared sink and of the calls made on *)
(* it.                                                                     *)
(***************************************************************************)
VARIABLES
    files,        \* this.files: the Map, as the sequence of its [name, file] pairs
    offset,       \* this.offset
    initialized,  \* this.writer.initialized
    sink,         \* the segments appended to this.writer, in order
    uninitWrite,  \* a write reached this.writer before its init
    reserved,     \* the calls that passed the name check of line 62, in order
    calls,        \* the add calls: position, arguments and locals of each
    closing,      \* the latest close call
    closes        \* the number of close calls that reached line 108

vars == <<files, offset, initialized, sink, uninitWrite, reserved, calls, closing, closes>>

Calls == 1..MaxCalls

\* the value a Map holds for a reserved name (line 65)
Null == [null |-> TRUE]

(***************************************************************************)
(* Map, in insertion order.                                                *)
(***************************************************************************)
\* variant: a reserved name (a placeholder) does not count
MapHasCompleted(map, name) ==
    \E i \in 1..Len(map) : map[i].name = name /\ map[i].file # Null

MapHas(map, name) == \E i \in 1..Len(map) : map[i].name = name

MapIndex(map, name) == CHOOSE i \in 1..Len(map) : map[i].name = name

\* variant: a new key goes first
MapSetFirst(map, name, file) ==
    IF \E i \in 1..Len(map) : map[i].name = name
    THEN [map EXCEPT ![MapIndex(map, name)].file = file]
    ELSE <<[name |-> name, file |-> file]>> \o map

\* variant: a known key is deleted and inserted again, so it moves to the end
MapSetMoveToEnd(map, name, file) ==
    Append(SelectSeq(map, LAMBDA e : e.name # name), [name |-> name, file |-> file])

\* Map.prototype.set: a new key goes last, a known key keeps its place
MapSet(map, name, file) ==
    IF MapHas(map, name)
    THEN [map EXCEPT ![MapIndex(map, name)].file = file]
    ELSE Append(map, [name |-> name, file |-> file])

MapGet(map, name) == map[MapIndex(map, name)].file

(***************************************************************************)
(* The sink (data.js Writer): init sets initialized, writeUint8Array       *)
(* appends.  A segment is [owner, kind, bytes, len]; the bytes the         *)
(* pipeline or the caller produced are kept as a length only.              *)
(***************************************************************************)
Segment(owner, kind, bytes) ==
    [owner |-> owner, kind |-> kind, bytes |-> bytes, len |-> Len(bytes)]

Opaque(owner, kind, n) ==
    [owner |-> owner, kind |-> kind, bytes |-> <<>>, len |-> n]

WriteUint8Array(data, segments) == data \o segments

RECURSIVE TotalLen(_)
TotalLen(segments) ==
    IF segments = <<>> THEN 0 ELSE Head(segments).len + TotalLen(Tail(segments))

(***************************************************************************)
(* ZipWriter.add, lines 47-73.                                             *)
(***************************************************************************)
IdleCall ==
    [pc |-> "idle", rawName |-> <<>>, name |-> <<>>,
     reader |-> [present |-> FALSE, size |-> 0],
     options |-> Null, date |-> Null, writer |-> <<>>, fileEntry |-> Null,
     codec |-> Null, result |-> NoResult, error |-> "none"]

\* variant: the name is not trimmed
NormalizedNameUntrimmed(rawName, options) ==
    IF options.directory /\ (rawName = <<>> \/ rawName[Len(rawName)] # Slash)
    THEN Append(rawName, Slash)
    ELSE rawName

\* variant: a directory name always gets a separator appended
NormalizedNameAlwaysSlash(rawName, options) ==
    IF options.directory THEN Append(Trim(rawName), Slash) ELSE Trim(rawName)

\* lines 58-61
NormalizedName(rawName, options) ==
    LET name == Trim(rawName)
    IN  IF options.directory /\ (name = <<>> \/ name[Len(name)] # Slash)
        THEN Append(name, Slash)
        ELSE name

\* lines 164-171: what createCodec is given
CodecOptions(options) ==
    [outputSigned    |-> outputSignedOf(options),
     outputCompressed |-> compressedOf(options),
     outputEncrypted |-> outputEncryptedOf(options),
     passwordGiven   |-> options.password.defined]

\* lines 71-72
AssignOffset(map, name, running) ==
    [map EXCEPT ![MapIndex(map, name)].file.offset = running]

\* variant: the footer is left out of the advance
AdvanceOffsetNoFooter(running, fileEntry) == running + fileEntry.length - 16

\* variant: the advance counts the header block alone
AdvanceOffsetHeaderOnly(running, fileEntry) ==
    running + 30 + Len(fileEntry.filename) + Len(fileEntry.extraField)

AdvanceOffset(running, fileEntry) == running + fileEntry.length

\* a call writes to its private writer (bufferedWrite) or to the shared sink
CallAfterWrite(call, segments) ==
    IF call.options.bufferedWrite
    THEN [call EXCEPT !.writer = WriteUint8Array(@, segments)]
    ELSE call

\* variant: a bufferedWrite call encodes into the shared sink
SinkAfterWriteShared(call, segments) == WriteUint8Array(sink, segments)

SinkAfterWrite(call, segments) ==
    IF call.options.bufferedWrite THEN sink ELSE WriteUint8Array(sink, segments)

UninitAfterWrite(call, ready) ==
    IF call.options.bufferedWrite THEN uninitWrite ELSE uninitWrite \/ ~ready

\* lines 58-66 and createFileEntry up to its first await (line 160): the name
\* check, the reservation and the write of the header block
CheckNameAndStart(c, call, ready) ==
    LET name == NormalizedName(call.rawName, call.options)
        fileEntry == NewFileEntry(name, call.options, call.date)
        block == <<Segment(c, "header", FileDataArray(fileEntry))>>
        started == [call EXCEPT !.pc = "header", !.name = name, !.fileEntry = fileEntry]
    IN  IF MapHas(files, name)
        THEN /\ calls' = [calls EXCEPT ![c] = [call EXCEPT !.pc = "duplicate", !.name = name,
                                                          !.error = "ERR_DUPLICATED_NAME"]]
             /\ UNCHANGED <<files, sink, uninitWrite, reserved>>
        ELSE /\ files' = MapSet(files, name, Null)
             /\ reserved' = Append(reserved, c)
             /\ calls' = [calls EXCEPT ![c] = CallAfterWrite(started, block)]
             /\ sink' = SinkAfterWrite(call, block)
             /\ uninitWrite' = UninitAfterWrite(call, ready)

\* add is called: lines 47-57, and on without a pause unless init is awaited
Add(c, input) ==
    LET call == [IdleCall EXCEPT !.rawName = input.rawName, !.reader = input.reader,
                                 !.options = input.options,
                                 !.date = IF input.options.lastModDate.defined
                                          THEN input.options.lastModDate.date
                                          ELSE input.now]
    IN  /\ calls[c].pc = "idle"
        /\ \A d \in Calls : d < c => calls[d].pc # "idle"
        /\ IF ~input.options.bufferedWrite /\ ~initialized
           THEN /\ initialized' = TRUE
                /\ calls' = [calls EXCEPT ![c] = [call EXCEPT !.pc = "init"]]
                /\ UNCHANGED <<files, sink, uninitWrite, reserved>>
           ELSE /\ UNCHANGED initialized
                /\ CheckNameAndStart(c, call, initialized)
        /\ UNCHANGED <<offset, closing, closes>>

\* line 54 resumes
InitDone(c) ==
    /\ calls[c].pc = "init"
    /\ CheckNameAndStart(c, calls[c], initialized)
    /\ UNCHANGED <<initialized, offset, closing, closes>>

\* line 160 resumes.  With a reader, lines 163-172 run the pipeline; without,
\* lines 174-187 write the footer
HeaderWritten(c) ==
    LET call == calls[c]
        footer == <<Segment(c, "footer", FooterArray(call.options, call.reader, NoResult))>>
    IN  /\ call.pc = "header"
        /\ IF call.reader.present
           THEN /\ calls' = [calls EXCEPT ![c] =
                        [call EXCEPT !.pc = "data", !.codec = CodecOptions(call.options)]]
                /\ UNCHANGED <<sink, uninitWrite>>
           ELSE /\ calls' = [calls EXCEPT ![c] =
                        CallAfterWrite([call EXCEPT !.pc = "footer"], footer)]
                /\ sink' = SinkAfterWrite(call, footer)
                /\ uninitWrite' = UninitAfterWrite(call, initialized)
        /\ UNCHANGED <<reserved, files, offset, initialized, closing, closes>>

\* line 172 resumes with the pipeline's result, whose bytes are in the writer;
\* lines 174-187 patch the header and write the footer
DataDone(c, result) ==
    LET call == calls[c]
        blocks == <<Opaque(c, "data", result.length),
                    Segment(c, "footer", FooterArray(call.options, call.reader, result))>>
        patched == [call EXCEPT !.pc = "footer", !.result = result,
                        !.fileEntry.headerArray =
                            PatchHeader(@, call.options, call.reader, result)]
    IN  /\ call.pc = "data"
        /\ calls' = [calls EXCEPT ![c] = CallAfterWrite(patched, blocks)]
        /\ sink' = SinkAfterWrite(call, blocks)
        /\ uninitWrite' = UninitAfterWrite(call, initialized)
        /\ UNCHANGED <<reserved, files, offset, initialized, closing, closes>>

\* line 187 resumes, createFileEntry returns (188-189) and add goes on with
\* lines 67-72, up to the await of line 69 in bufferedWrite mode
FooterWritten(c) ==
    LET call == calls[c]
        fileEntry == [call.fileEntry EXCEPT
                          !.length = EntryLength(call.fileEntry, call.reader, call.result)]
        stored == MapSet(files, call.name, fileEntry)
    IN  /\ call.pc = "footer"
        /\ IF call.options.bufferedWrite
           THEN /\ files' = stored
                /\ sink' = WriteUint8Array(sink, call.writer)
                /\ uninitWrite' = (uninitWrite \/ ~initialized)
                /\ calls' = [calls EXCEPT ![c] =
                        [call EXCEPT !.pc = "flush", !.fileEntry = fileEntry]]
                /\ UNCHANGED offset
           ELSE /\ files' = AssignOffset(stored, call.name, offset)
                /\ offset' = AdvanceOffset(offset, fileEntry)
                /\ calls' = [calls EXCEPT ![c] =
                        [call EXCEPT !.pc = "done", !.fileEntry = fileEntry]]
                /\ UNCHANGED <<sink, uninitWrite>>
        /\ UNCHANGED <<reserved, initialized, closing, closes>>

\* line 69 resumes: lines 71-72
Flushed(c) ==
    LET call == calls[c]
    IN  /\ call.pc = "flush"
        /\ files' = AssignOffset(files, call.name, offset)
        /\ offset' = AdvanceOffset(offset, call.fileEntry)
        /\ calls' = [calls EXCEPT ![c].pc = "done"]
        /\ UNCHANGED <<reserved, initialized, sink, uninitWrite, closing, closes>>

\* a write to the shared sink is rejected (lines 160, 187 in direct mode,
\* line 69 in bufferedWrite mode): add rejects with that error
WriteFails(c) ==
    LET call == calls[c]
    IN  /\ \/ call.pc \in {"header", "footer"} /\ ~call.options.bufferedWrite
           \/ call.pc = "flush"
        /\ calls' = [calls EXCEPT ![c].pc = "failed", ![c].error = "sink"]
        /\ UNCHANGED <<reserved, files, offset, initialized, sink, uninitWrite, closing, closes>>

\* the reader or the pipeline raises an error (lines 163-172), after the
\* pipeline wrote partial bytes to the call's writer
DataFails(c, partial) ==
    LET call == calls[c]
        blocks == <<Opaque(c, "data", partial)>>
    IN  /\ call.pc = "data"
        /\ calls' = [calls EXCEPT ![c] =
                CallAfterWrite([call EXCEPT !.pc = "failed", !.error = "pipeline"], blocks)]
        /\ sink' = SinkAfterWrite(call, blocks)
        /\ uninitWrite' = UninitAfterWrite(call, initialized)
        /\ UNCHANGED <<reserved, files, offset, initialized, closing, closes>>

(***************************************************************************)
(* ZipWriter.close, lines 75-113.  The comment argument is                 *)
(* [defined : BOOLEAN, length : Nat]; its bytes are not looked at.         *)
(***************************************************************************)
\* line 78, 94: the size of one central-directory record
RecordLength(file) ==
    46 + Len(file.filename) + Len(file.comment) + Len(file.extraField)

\* lines 77-79
RECURSIVE DirectoryDataLength(_)
DirectoryDataLength(map) ==
    IF map = <<>> THEN 0
    ELSE RecordLength(Head(map).file) + DirectoryDataLength(Tail(map))

\* variant: the comment is put before the extra field
WriteRecordCommentFirst(arr, off, file) ==
    LET a1 == SetUint32(arr, off, 1347092738, FALSE)
        a2 == SetUint16(a1, off + 4, 5120, FALSE)
        a3 == SetArray(a2, file.headerArray, off + 6)
        a4 == SetUint16(a3, off + 32, Len(file.comment), TRUE)
        a5 == IF file.directory THEN SetUint8(a4, off + 38, 16) ELSE a4
        a6 == SetUint32(a5, off + 42,
                        IF file.offset = Undefined THEN 0 ELSE file.offset, TRUE)
        a7 == SetArray(a6, file.filename, off + 46)
        a8 == SetArray(a7, file.comment, off + 46 + Len(file.filename))
    IN  SetArray(a8, file.extraField, off + 46 + Len(file.filename) + Len(file.comment))

\* lines 83-93: one record written at position off of the array; an offset
\* that was never assigned is written as 0
WriteRecord(arr, off, file) ==
    LET a1 == SetUint32(arr, off, 1347092738, FALSE)
        a2 == SetUint16(a1, off + 4, 5120, FALSE)
        a3 == SetArray(a2, file.headerArray, off + 6)
        a4 == SetUint16(a3, off + 32, Len(file.comment), TRUE)
        a5 == IF file.directory THEN SetUint8(a4, off + 38, 16) ELSE a4
        a6 == SetUint32(a5, off + 42,
                        IF file.offset = Undefined THEN 0 ELSE file.offset, TRUE)
        a7 == SetArray(a6, file.filename, off + 46)
        a8 == SetArray(a7, file.extraField, off + 46 + Len(file.filename))
    IN  SetArray(a8, file.comment, off + 46 + Len(file.filename) + Len(file.extraField))

\* lines 82-95: the loop; the result is the array and the final cursor
RECURSIVE WriteRecords(_, _, _)
WriteRecords(arr, off, map) ==
    IF map = <<>> THEN [array |-> arr, offset |-> off]
    ELSE WriteRecords(WriteRecord(arr, off, Head(map).file),
                      off + RecordLength(Head(map).file), Tail(map))

\* line 101
CommentGiven(comment) == comment.defined /\ comment.length # 0

\* line 102
CommentFits(comment) == comment.length <= 65536

\* lines 96-107: the end-of-central-directory record written at the cursor
WriteTrailer(arr, off, size, directoryDataLength, running, comment) ==
    LET a1 == SetUint32(arr, off, 1347093766, FALSE)
        a2 == SetUint16(a1, off + 8, size, TRUE)
        a3 == SetUint16(a2, off + 10, size, TRUE)
        a4 == SetUint32(a3, off + 12, directoryDataLength, TRUE)
        a5 == SetUint32(a4, off + 16, running, TRUE)
    IN  IF CommentGiven(comment) /\ CommentFits(comment)
        THEN SetUint16(a5, off + 20, comment.length, TRUE)
        ELSE a5

\* variant: the directory is written before the comment is checked
CloseAttemptWriteFirst(map, running, comment) ==
    IF \E i \in 1..Len(map) : map[i].file = Null
    THEN [error |-> "TypeError", array |-> <<>>, written |-> <<>>]
    ELSE LET directoryDataLength == DirectoryDataLength(map)
             records == WriteRecords(Zeros(directoryDataLength + 22), 0, map)
             array == WriteTrailer(records.array, records.offset, Len(map),
                                   directoryDataLength, running, comment)
         IN  [error |-> IF CommentGiven(comment) /\ ~CommentFits(comment)
                        THEN "ERR_ZIP_FILE_COMMENT" ELSE "none",
              array |-> array,
              written |-> <<Segment(0, "directory", array)>>]

\* lines 76-107 up to the first write: the error thrown, if any, and the
\* segments written to the sink by line 108
CloseAttempt(map, running, comment) ==
    IF \E i \in 1..Len(map) : map[i].file = Null
    THEN [error |-> "TypeError", array |-> <<>>, written |-> <<>>]
    ELSE LET directoryDataLength == DirectoryDataLength(map)
             records == WriteRecords(Zeros(directoryDataLength + 22), 0, map)
             array == WriteTrailer(records.array, records.offset, Len(map),
                                   directoryDataLength, running, comment)
         IN  IF CommentGiven(comment) /\ ~CommentFits(comment)
             THEN [error |-> "ERR_ZIP_FILE_COMMENT", array |-> <<>>, written |-> <<>>]
             ELSE [error |-> "none", array |-> array,
                   written |-> <<Segment(0, "directory", array)>>]

NoComment == [defined |-> FALSE, length |-> 0]

\* retry: the close call before this one threw ERR_ZIP_FILE_COMMENT
NotClosing ==
    [pc |-> "idle", comment |-> NoComment, error |-> "none", array |-> <<>>,
     retry |-> FALSE]

\* close is called: lines 76-108
Close(comment) ==
    LET attempt == CloseAttempt(files, offset, comment)
    IN  /\ closing.pc \notin {"directory", "comment"}
        /\ closes < MaxCloses
        /\ closes' = IF attempt.error = "none" THEN closes + 1 ELSE closes
        /\ closing' = [pc |-> IF attempt.error = "none" THEN "directory" ELSE "failed",
                       comment |-> comment, error |-> attempt.error,
                       array |-> attempt.array,
                       retry |-> (closing.pc = "failed"
                                    /\ closing.error = "ERR_ZIP_FILE_COMMENT")]
        /\ sink' = WriteUint8Array(sink, attempt.written)
        /\ uninitWrite' = (uninitWrite \/ (attempt.written # <<>> /\ ~initialized))
        /\ UNCHANGED <<files, offset, initialized, reserved, calls>>

\* line 108 resumes: lines 109-112
DirectoryWritten ==
    /\ closing.pc = "directory"
    /\ IF CommentGiven(closing.comment)
       THEN /\ sink' = WriteUint8Array(sink, <<Opaque(0, "comment", closing.comment.length)>>)
            /\ uninitWrite' = (uninitWrite \/ ~initialized)
            /\ closing' = [closing EXCEPT !.pc = "comment"]
       ELSE /\ closing' = [closing EXCEPT !.pc = "done"]
            /\ UNCHANGED <<sink, uninitWrite>>
    /\ UNCHANGED <<reserved, files, offset, initialized, calls, closes>>

\* line 110 resumes: line 112
CommentWritten ==
    /\ closing.pc = "comment"
    /\ closing' = [closing EXCEPT !.pc = "done"]
    /\ UNCHANGED <<reserved, files, offset, initialized, sink, uninitWrite, calls, closes>>

(***************************************************************************)
(* Inputs.                                                                 *)
(***************************************************************************)
NoPassword == [defined |-> FALSE, kind |-> "string", length |-> 0]

\* undefined, "", an empty byte array, a 3-character string
Passwords ==
    {NoPassword,
     [defined |-> TRUE, kind |-> "string", length |-> 0],
     [defined |-> TRUE, kind |-> "bytes", length |-> 0],
     [defined |-> TRUE, kind |-> "string", length |-> 3]}

Date2023 == [year |-> 2023, month |-> 5, day |-> 15,
             hours |-> 10, minutes |-> 30, seconds |-> 45]

PlainOptions(bufferedWrite, directory) ==
    [bufferedWrite |-> bufferedWrite, directory |-> directory,
     password |-> NoPassword, level |-> [defined |-> FALSE, value |-> 0],
     comment |-> <<>>, extraField |-> <<>>,
     lastModDate |-> [defined |-> TRUE, date |-> Date2023], version |-> 0]

NoReader == [present |-> FALSE, size |-> 0]

SomeReader == [present |-> TRUE, size |-> MaxContentLen]

\* "a", " a", "b"
Names == {<<97>>, <<32, 97>>, <<98>>}

\* the add calls of the concurrent behaviours
Inputs ==
    [rawName : Names, reader : {SomeReader},
     options : {PlainOptions(b, FALSE) : b \in BOOLEAN}, now : {Date2023}]

SeqInput(rawName, reader, bufferedWrite, directory) ==
    [rawName |-> rawName, reader |-> reader,
     options |-> PlainOptions(bufferedWrite, directory), now |-> Date2023]

\* the add calls of the sequential behaviours: files "a", " a", "a/" and "b",
\* and the directory "a"
SeqInputs ==
    {SeqInput(<<97>>, SomeReader, FALSE, FALSE),
     SeqInput(<<32, 97>>, SomeReader, TRUE, FALSE),
     SeqInput(<<97, 47>>, SomeReader, FALSE, FALSE),
     SeqInput(<<97>>, NoReader, FALSE, TRUE),
     SeqInput(<<98>>, NoReader, TRUE, FALSE)}

\* the entry under study: "docs", "docs/", " docs/ ", "é" with every combination of
\* the options the encoder looks at
RichOptions ==
    [bufferedWrite : {FALSE}, directory : BOOLEAN, password : Passwords,
     level : {[defined |-> FALSE, value |-> 0], [defined |-> TRUE, value |-> 0]},
     comment : {<<>>}, extraField : {<<>>, <<202, 254, 0, 0>>},
     lastModDate : {[defined |-> TRUE, date |-> Date2023]}, version : {0}]

RichInputs ==
    [rawName : {<<100, 111, 99, 115>>, <<100, 111, 99, 115, 47>>,
                <<32, 100, 111, 99, 115, 47, 32>>, <<233>>},
     reader : {NoReader, SomeReader}, options : RichOptions, now : {Date2023}]

FirstInputs ==
    [rawName : {<<98>>}, reader : {SomeReader},
     options : {PlainOptions(b, FALSE) : b \in BOOLEAN}, now : {Date2023}]

Results ==
    [length : {MaxContentLen}, hasSignature : {TRUE}, signature : {305419896}]

RichResults ==
    [length : {0, MaxContentLen}, hasSignature : BOOLEAN, signature : {305419896}]

SeqComments ==
    {NoComment} \cup [defined : {TRUE}, length : {65535, 65536, 65537}]

(***************************************************************************)
(* The writer after construction (lines 40-45) and its behaviours.         *)
(***************************************************************************)
Init ==
    /\ files = <<>>
    /\ offset = 0
    /\ initialized = FALSE
    /\ sink = <<>>
    /\ uninitWrite = FALSE
    /\ reserved = <<>>
    /\ calls = [c \in Calls |-> IdleCall]
    /\ closing = NotClosing
    /\ closes = 0

AddCalled == \E c \in Calls, input \in Inputs : Add(c, input)

InitResumes == \E c \in Calls : InitDone(c)

HeaderResumes == \E c \in Calls : HeaderWritten(c)

PipelineResumes == \E c \in Calls, result \in Results : DataDone(c, result)

PipelineFails == \E c \in Calls, partial \in {0, MaxContentLen} : DataFails(c, partial)

FooterResumes == \E c \in Calls : FooterWritten(c)

FlushResumes == \E c \in Calls : Flushed(c)

SinkFails == \E c \in Calls : WriteFails(c)

CloseCalled == Close(NoComment)

\* any interleaving of add and close calls that meet no error of the sink,
\* the reader or the pipeline
Next ==
    \/ AddCalled
    \/ InitResumes
    \/ HeaderResumes
    \/ PipelineResumes
    \/ FooterResumes
    \/ FlushResumes
    \/ CloseCalled
    \/ DirectoryWritten

Spec == Init /\ [][Next]_vars

\* no add and no close is between its call and its settlement
Settled ==
    /\ \A c \in Calls : calls[c].pc \in {"idle", "done", "failed", "duplicate"}
    /\ closing.pc \notin {"directory", "comment"}

\* entries are added until close has written a directory
SeqAddCalled == Settled /\ closes = 0 /\ \E c \in Calls, input \in SeqInputs : Add(c, input)

SeqCloseCalled == Settled /\ \E comment \in SeqComments : Close(comment)

\* the caller awaits every call before making the next
SeqNext ==
    \/ SeqAddCalled
    \/ InitResumes
    \/ HeaderResumes
    \/ PipelineResumes
    \/ PipelineFails
    \/ FooterResumes
    \/ FlushResumes
    \/ SinkFails
    \/ SeqCloseCalled
    \/ DirectoryWritten
    \/ CommentWritten

SeqSpec == Init /\ [][SeqNext]_vars

EntryAddCalled ==
    /\ Settled
    /\ closes = 0
    /\ \E c \in Calls, input \in (IF Len(files) = 1 THEN RichInputs ELSE FirstInputs) :
           Add(c, input)

EntryPipelineResumes == \E c \in Calls, result \in RichResults : DataDone(c, result)

EntryCloseCalled == Settled /\ Close(NoComment)

\* sequential calls that meet no error, the second entry drawn from the rich
\* inputs, and close
EntryNext ==
    \/ EntryAddCalled
    \/ InitResumes
    \/ HeaderResumes
    \/ EntryPipelineResumes
    \/ FooterResumes
    \/ FlushResumes
    \/ EntryCloseCalled
    \/ DirectoryWritten

EntrySpec == Init /\ [][EntryNext]_vars

\* the first and last value of each part of a timestamp, and one between
Dates ==
    [year : {1980, 2023, 2107}, month : {0, 5, 11}, day : {1, 15, 31},
     hours : {0, 10, 23}, minutes : {0, 30, 59}, seconds : {0, 45, 59}]

\* an entry with options.lastModDate, or without it and line 120's new Date()
DateInputs ==
    [rawName : {<<98>>}, reader : {NoReader},
     options : {[PlainOptions(FALSE, FALSE) EXCEPT !.lastModDate = [defined |-> TRUE, date |-> d]] :
                    d \in Dates}
               \cup {[PlainOptions(FALSE, FALSE) EXCEPT !.lastModDate =
                                                  [defined |-> FALSE, date |-> Date2023]]},
     now : Dates]

DateAddCalled ==
    /\ Settled
    /\ closes = 0
    /\ files = <<>>
    /\ \E c \in Calls, input \in DateInputs :
           /\ input.options.lastModDate.defined => input.now = Date2023
           /\ Add(c, input)

DateCloseCalled == Settled /\ files # <<>> /\ Close(NoComment)

\* one entry with a timestamp, and close
DateNext ==
    \/ DateAddCalled
    \/ InitResumes
    \/ HeaderResumes
    \/ FooterResumes
    \/ DateCloseCalled
    \/ DirectoryWritten

DateSpec == Init /\ [][DateNext]_vars

\* entries "a" and "bc" without content, with and without the comment "é"
\* and an extra field
RecordInputs ==
    [rawName : {<<97>>, <<98, 99>>}, reader : {NoReader},
     options : {[PlainOptions(FALSE, FALSE) EXCEPT !.comment = k, !.extraField = x] :
                    k \in {<<>>, <<233>>}, x \in {<<>>, <<202, 254, 0, 0>>}},
     now : {Date2023}]

RecordAddCalled ==
    Settled /\ closes = 0 /\ \E c \in Calls, input \in RecordInputs : Add(c, input)

RecordCloseCalled == Settled /\ \E comment \in {NoComment, [defined |-> TRUE, length |-> 3]} : Close(comment)

\* sequential entries with comments and extra fields, and close
RecordNext ==
    \/ RecordAddCalled
    \/ InitResumes
    \/ HeaderResumes
    \/ FooterResumes
    \/ RecordCloseCalled
    \/ DirectoryWritten
    \/ CommentWritten

RecordSpec == Init /\ [][RecordNext]_vars

(***************************************************************************)
(* What a reader of the produced bytes sees.                               *)
(***************************************************************************)
\* the central-directory records of a directory array, read from its bytes
RECURSIVE ParseRecords(_, _)
ParseRecords(array, p) ==
    IF p + 46 > Len(array) - 22 THEN <<>>
    ELSE LET n == GetUint16LE(array, p + 28)
             m == GetUint16LE(array, p + 30)
             k == GetUint16LE(array, p + 32)
         IN  <<[signature |-> GetUint32BE(array, p),
                header |-> Slice(array, p + 6, 26),
                attribute |-> array[p + 38 + 1],
                offset |-> GetUint32LE(array, p + 42),
                name |-> Slice(array, p + 46, n),
                extraField |-> Slice(array, p + 46 + n, m),
                comment |-> Slice(array, p + 46 + n + m, k),
                length |-> 46 + n + m + k]>>
             \o ParseRecords(array, p + 46 + n + m + k)

Records == ParseRecords(closing.array, 0)

\* the position of the end-of-central-directory record
Trailer == Len(closing.array) - 22

\* close has written its directory, and nothing was appended after it but
\* its comment
CloseWritten ==
    /\ closing.pc \in {"directory", "comment", "done"}
    /\ sink # <<>>
    /\ sink[Len(sink)].owner = 0

Made == {c \in Calls : calls[c].pc # "idle"}

AllSucceeded == \A c \in Made : calls[c].pc = "done"

\* the segments of call c in the shared sink, and where they begin
SegmentsOf(c) == SelectSeq(sink, LAMBDA g : g.owner = c)

FirstOf(c) == CHOOSE i \in 1..Len(sink) : sink[i].owner = c /\ \A j \in 1..(i - 1) : sink[j].owner # c

SinkStart(c) == TotalLen(SubSeq(sink, 1, FirstOf(c) - 1))

HeaderBlockOf(c) == SelectSeq(sink, LAMBDA g : g.owner = c /\ g.kind = "header")[1].bytes

FooterOf(c) == SelectSeq(sink, LAMBDA g : g.owner = c /\ g.kind = "footer")[1].bytes

\* the name an entry is to be stored under: trimmed, and with one "/"
\* appended when a directory's name lacks it
StoredName(rawName, directory) ==
    LET t == Trim(rawName)
    IN  IF directory /\ (t = <<>> \/ t[Len(t)] # 47) THEN t \o <<47>> ELSE t

StoredNameOf(c) == StoredName(calls[c].rawName, calls[c].options.directory)

(***************************************************************************)
(* C1. Sequential add calls with pairwise distinct normalized names, then  *)
(* close: both entry-count fields of the end-of-central-directory record   *)
(* equal the number of add calls, and the central directory holds one      *)
(* record per add call, in the order the calls were made.                  *)
(***************************************************************************)
C1_CountAndOrder ==
    (CloseWritten /\ AllSucceeded) =>
        LET n == Cardinality(Made)
        IN  /\ GetUint16LE(closing.array, Trailer + 8) = n
            /\ GetUint16LE(closing.array, Trailer + 10) = n
            /\ Len(Records) = n
            /\ \A i \in 1..n :
                 /\ Records[i].signature = 1347092738
                 /\ Records[i].name = getBytes(encodeUTF8(StoredNameOf(i)))

C1_Witness ==
    /\ closing.pc = "done"
    /\ CloseWritten
    /\ Made = Calls
    /\ AllSucceeded
    /\ calls[1].options.bufferedWrite
    /\ calls[1].rawName # calls[1].name

(***************************************************************************)
(* C2. After sequential successful add calls and close: the first entry's  *)
(* relative offset is 0, each next relative offset is the previous one     *)
(* plus the bytes of the previous entry, and the central-directory offset  *)
(* of the trailer is the last offset plus the last entry's bytes, the      *)
(* final running offset.                                                   *)
(***************************************************************************)
C2_OffsetsChain ==
    (CloseWritten /\ AllSucceeded) =>
        LET n == Cardinality(Made)
            declared == GetUint32LE(closing.array, Trailer + 16)
        IN  /\ Len(Records) = n
            /\ n > 0 => Records[1].offset = 0
            /\ \A i \in 1..(n - 1) :
                 /\ Records[i + 1].offset = Records[i].offset + TotalLen(SegmentsOf(i))
                 /\ files[i].file.length = TotalLen(SegmentsOf(i))
            /\ n > 0 => declared = Records[n].offset + TotalLen(SegmentsOf(n))
            /\ declared = offset

C2_Witness ==
    /\ closing.pc = "done"
    /\ CloseWritten
    /\ Made = Calls
    /\ AllSucceeded
    /\ Len(Records) > 1
    /\ Records[2].offset > 0
    /\ \E c \in Calls : calls[c].options.bufferedWrite
    /\ \E c \in Calls : ~calls[c].options.bufferedWrite

(***************************************************************************)
(* C3. An add call whose name, trimmed and with the "/" of a directory     *)
(* appended, is the name of an entry already in the collection fails with  *)
(* the duplicate-name error and leaves the collection, the running offset  *)
(* and the bytes of the shared sink as they were before the call.          *)
(***************************************************************************)
C3_DuplicateRejected ==
    [][\A c \in Calls :
         /\ (calls[c].pc = "idle" /\ calls'[c].pc = "init")
               => (files' = files /\ offset' = offset /\ sink' = sink)
         /\ (/\ calls[c].pc \in {"idle", "init"}
             /\ calls'[c].pc \notin {"idle", "init"}
             /\ \E i \in 1..Len(files) :
                    files[i].name = StoredName(calls'[c].rawName,
                                               calls'[c].options.directory))
               => (/\ calls'[c].pc = "duplicate"
                   /\ files' = files /\ offset' = offset /\ sink' = sink)]_vars

C3_Witness ==
    /\ calls[1].pc = "done"
    /\ calls[1].rawName = <<97, 47>>
    /\ calls[2].pc = "duplicate"
    /\ calls[2].rawName = <<97>>
    /\ calls[2].options.directory
    /\ Len(files) = 1
    /\ offset = TotalLen(sink)

(***************************************************************************)
(* C4. close(comment) succeeds for every comment of at most 65535 bytes    *)
(* and fails with the comment-too-large error for every comment of 65536   *)
(* bytes or more; when it succeeds, the 16-bit comment-length field of the *)
(* trailer equals the comment's length.                                    *)
(***************************************************************************)
C4_CommentLimit ==
    (closing.pc # "idle" /\ closing.error # "TypeError") =>
        /\ closing.comment.length <= 65535 =>
             /\ closing.error = "none"
             /\ GetUint16LE(closing.array, Trailer + 20) = closing.comment.length
        /\ closing.comment.length >= 65536 =>
             closing.error = "ERR_ZIP_FILE_COMMENT"

(***************************************************************************)
(* C5. In every interleaving of add calls, at most one call per normalized *)
(* name gets past the name check and writes an entry: a call made while an *)
(* earlier call for the same name is still encoding is rejected.           *)
(***************************************************************************)
PastNameCheck == {"header", "data", "footer", "flush", "done", "failed"}

C5_OneCallPerName ==
    /\ \A c, d \in Calls :
         (c # d /\ calls[c].pc \in PastNameCheck /\ calls[d].pc \in PastNameCheck)
            => StoredNameOf(c) # StoredNameOf(d)
    /\ \A c \in Calls :
         (calls[c].pc \notin PastNameCheck)
            => (SegmentsOf(c) = <<>> /\ calls[c].writer = <<>>)

C5_Witness ==
    /\ calls[1].pc \in {"header", "data", "footer"}
    /\ calls[2].pc = "duplicate"
    /\ calls[1].rawName # calls[2].rawName
    /\ StoredNameOf(1) = StoredNameOf(2)

(***************************************************************************)
(* C6. In bufferedWrite mode, for every interleaving of add calls, the     *)
(* append of an entry's bytes to the shared sink, the replacement of its   *)
(* placeholder and the assignment of its offset with the advance of the    *)
(* running offset are one atomic step: no other call's append or advance   *)
(* comes between them, so each recorded offset is the position in the      *)
(* sink where the entry's bytes begin.                                     *)
(***************************************************************************)
AllBuffered == \A c \in Made : calls[c].options.bufferedWrite

C6_AtomicCommit ==
    (AllBuffered /\ closes = 0) =>
        /\ \A c \in Calls :
             calls[c].pc = "flush" =>
                 /\ sink[Len(sink)].owner = c
                 /\ offset = SinkStart(c)
        /\ \A c \in Calls :
             calls[c].pc = "done" =>
                 files[MapIndex(files, calls[c].name)].file.offset = SinkStart(c)

(***************************************************************************)
(* C7. For every interleaving of add calls that all complete successfully, *)
(* the order of the records in the central directory is the order in which *)
(* the entries' bytes were appended to the shared sink.                    *)
(***************************************************************************)
\* the calls in the order their header blocks lie in the sink
SinkOrder ==
    LET blocks == SelectSeq(sink, LAMBDA g : g.kind = "header")
    IN  [i \in 1..Len(blocks) |-> blocks[i].owner]

C7_DirectoryOrderIsSinkOrder ==
    (CloseWritten /\ AllSucceeded) =>
        /\ Len(Records) = Len(SinkOrder)
        /\ \A i \in 1..Len(Records) :
             Records[i].name = getBytes(encodeUTF8(StoredNameOf(SinkOrder[i])))

\* as amended: the order of the records is the order in which the calls
\* passed the name check and reserved their names
C7_DirectoryOrderIsReservationOrder ==
    (CloseWritten /\ AllSucceeded) =>
        /\ Len(Records) = Len(reserved)
        /\ \A i \in 1..Len(Records) :
             Records[i].name = getBytes(encodeUTF8(StoredNameOf(reserved[i])))

C7_Witness ==
    /\ closing.pc = "done"
    /\ CloseWritten
    /\ AllSucceeded
    /\ Made = Calls
    /\ SinkOrder # reserved
    /\ Len(Records) = Len(reserved)

(***************************************************************************)
(* C8. A close call that fails with the comment-too-large error appends no *)
(* bytes to the shared sink and leaves the entry collection and the        *)
(* running offset unchanged, so that a following close with an acceptable  *)
(* comment writes the directory of that unchanged state.                   *)
(***************************************************************************)
C8_FailedClose ==
    (/\ calls' = calls
     /\ closing'.pc = "failed"
     /\ closing'.error = "ERR_ZIP_FILE_COMMENT")
        => (files' = files /\ offset' = offset /\ sink' = sink)

\* the close that follows the failed one, with a comment that fits the 16-bit
\* field, writes the directory of the entries and the running offset as they
\* were
C8_RetriedClose ==
    (/\ calls' = calls
     /\ closing.pc = "failed"
     /\ closing.error = "ERR_ZIP_FILE_COMMENT"
     /\ closing'.pc = "directory"
     /\ closing'.comment.length <= 65535)
        => /\ Len(Records') = Len(files)
           /\ \A i \in 1..Len(files) :
                /\ Records'[i].name = files[i].file.filename
                /\ Records'[i].header = files[i].file.headerArray
                /\ files[i].file.offset # Undefined
                     => Records'[i].offset = files[i].file.offset
           /\ GetUint16LE(closing'.array, Trailer' + 10) = Len(files)
           /\ GetUint32LE(closing'.array, Trailer' + 16) = offset
           /\ GetUint16LE(closing'.array, Trailer' + 20) = closing'.comment.length
           /\ sink' = Append(sink, Segment(0, "directory", closing'.array))

C8_FailedCloseChangesNothing == [][C8_FailedClose /\ C8_RetriedClose]_vars

C8_Witness ==
    /\ closing.retry
    /\ closing.pc = "done"
    /\ closing.comment.length = 65535
    /\ Len(files) = MaxCalls
    /\ CloseWritten

(***************************************************************************)
(* C9. Every entry added with a non-empty password, compressed or not,     *)
(* with or without an extraField of the caller: its header mid-section     *)
(* carries the encrypted version/flags signature 33 00 09 00 and the       *)
(* method byte 0x63, its extra field is exactly the 11-byte AES field      *)
(* (header id 0x9901) and the extra-field length field is 11, the checksum *)
(* field is zero in its footer and in its header as copied to the central  *)
(* directory even when the pipeline returned a signature, and the relative *)
(* offset of its central-directory record is the running offset at the     *)
(* time the entry was added.                                               *)
(***************************************************************************)
\* the entry under study is the second one added
Studied == reserved[2]

StudiedWritten ==
    /\ CloseWritten
    /\ Len(reserved) = 2
    /\ Len(Records) = 2
    /\ calls[Studied].pc = "done"

\* the AES field a reader expects: id 0x9901, size 7, version 2, vendor "AE",
\* strength 3, and the 16-bit inner compression method, deflate or none
ExpectedAesField(options) ==
    <<1, 153, 7, 0, 2, 0, 65, 69, 3>>
        \o <<IF (~options.level.defined \/ options.level.value # 0) /\ ~options.directory
             THEN 8 ELSE 0, 0>>

C9_PasswordEntry ==
    (/\ StudiedWritten
     /\ calls[Studied].options.password.defined
     /\ calls[Studied].options.password.length > 0) =>
        LET c == Studied
            local == HeaderBlockOf(c)
            record == Records[2]
            n == Len(record.name)
            aes == ExpectedAesField(calls[c].options)
        IN  /\ Slice(local, 4, 5) = <<51, 0, 9, 0, 99>>
            /\ Slice(record.header, 0, 5) = <<51, 0, 9, 0, 99>>
            /\ GetUint16LE(local, 28) = 11
            /\ GetUint16LE(record.header, 24) = 11
            /\ Len(local) = 30 + n + 11
            /\ Slice(local, 30 + n, 11) = aes
            /\ record.extraField = aes
            /\ GetUint32LE(FooterOf(c), 4) = 0
            /\ GetUint32LE(local, 14) = 0
            /\ GetUint32LE(record.header, 10) = 0
            /\ record.offset = SinkStart(c)
            /\ record.offset = Records[1].offset + files[1].file.length

C9_Witness ==
    /\ StudiedWritten
    /\ closing.pc = "done"
    /\ calls[Studied].options.password.length > 0
    /\ calls[Studied].options.extraField # <<>>
    /\ ~calls[Studied].options.level.defined
    /\ ~calls[Studied].options.directory
    /\ calls[Studied].reader.present
    /\ calls[Studied].result.hasSignature
    /\ calls[Studied].result.length > 0
    /\ Records[2].extraField[10] = 8
    /\ Records[2].offset > 0

(***************************************************************************)
(* C10. An entry added with directory: true and no content source: a name  *)
(* that lacks the trailing "/" ("docs") is stored with exactly one "/"     *)
(* appended ("docs/"), a name that ends in "/" is stored as it is, the     *)
(* compressed and original size fields are zero, the method is "stored"    *)
(* (method field 0; under a password the method field is the AES marker    *)
(* and the method the AES field names is 0), the byte length is 30 + name  *)
(* length + extra-field length + 16, and the central-directory record has  *)
(* the attribute byte 0x10 at record offset 38; the records of entries     *)
(* that are no directories have that byte zero.                            *)
(***************************************************************************)
EndsInSlash(name) == name # <<>> /\ name[Len(name)] = 47

C10_DirectoryEntry ==
    StudiedWritten =>
        LET c == Studied
            record == Records[2]
            trimmed == Trim(calls[c].rawName)
            encrypted == /\ calls[c].options.password.defined
                         /\ calls[c].options.password.length > 0
        IN  /\ (calls[c].options.directory /\ ~calls[c].reader.present) =>
                  /\ ~EndsInSlash(trimmed) =>
                         record.name = getBytes(encodeUTF8(trimmed)) \o <<47>>
                  /\ EndsInSlash(trimmed) =>
                         record.name = getBytes(encodeUTF8(trimmed))
                  /\ Slice(HeaderBlockOf(c), 30, Len(record.name)) = record.name
                  /\ GetUint32LE(record.header, 14) = 0
                  /\ GetUint32LE(record.header, 18) = 0
                  /\ GetUint32LE(FooterOf(c), 8) = 0
                  /\ GetUint32LE(FooterOf(c), 12) = 0
                  /\ IF encrypted
                     THEN record.extraField[10] = 0
                     ELSE GetUint16LE(record.header, 4) = 0
                  /\ files[2].file.length
                         = 30 + Len(record.name) + Len(record.extraField) + 16
                  /\ TotalLen(SegmentsOf(c)) = files[2].file.length
                  /\ closing.array[38 + Records[1].length + 1] = 16
            /\ \A i \in 1..2 :
                  ~calls[reserved[i]].options.directory => Records[i].attribute = 0

C10_Witness ==
    /\ StudiedWritten
    /\ closing.pc = "done"
    /\ calls[Studied].options.directory
    /\ ~calls[Studied].reader.present
    /\ calls[Studied].rawName = <<100, 111, 99, 115>>
    /\ Records[2].name = <<100, 111, 99, 115, 47>>
    /\ Records[2].attribute = 16
    /\ Records[1].attribute = 0
    /\ calls[Studied].options.extraField # <<>>

(***************************************************************************)
(* C11. For every timestamp with year 1980..2107, month 1..12, day 1..31,  *)
(* hour 0..23, minute 0..59 and second 0..59, odd seconds included: the    *)
(* 16-bit field at header offset 6 is (hour << 11) | (minute << 5) |       *)
(* floor(second / 2) and the field at header offset 8 is                   *)
(* ((year - 1980) << 9) | (month << 5) | day, both little-endian and       *)
(* neither wrapped around 16 bits; for 2023-06-15 10:30:45 they are 21462  *)
(* and 22223.  The month of a date record is counted from 0, as getMonth   *)
(* gives it.                                                               *)
(***************************************************************************)
\* the bit fields do not overlap, so the packing is a sum
PackedTime(date) == date.hours * 2048 + date.minutes * 32 + date.seconds \div 2

PackedDate(date) == (date.year - 1980) * 512 + (date.month + 1) * 32 + date.day

\* the 16-bit field at off holds v, low byte first, and v fits in it
HoldsLE16(arr, off, v) ==
    /\ v < 65536
    /\ arr[off + 1] = v % 256
    /\ arr[off + 2] = v \div 256

C11_DosDateTime ==
    \A c \in Calls :
        calls[c].pc \in {"header", "footer", "done"} =>
            LET date == calls[c].date
                local == HeaderBlockOf(c)
            IN  /\ HoldsLE16(local, 4 + 6, PackedTime(date))
                /\ HoldsLE16(local, 4 + 8, PackedDate(date))
                /\ CloseWritten =>
                       /\ HoldsLE16(Records[1].header, 6, PackedTime(date))
                       /\ HoldsLE16(Records[1].header, 8, PackedDate(date))
                /\ date = Date2023 =>
                       /\ GetUint16LE(local, 10) = 21462
                       /\ GetUint16LE(local, 12) = 22223

C11_Witness ==
    /\ closing.pc = "done"
    /\ CloseWritten
    /\ Len(Records) = 1
    /\ calls[1].pc = "done"
    /\ calls[1].date.year = 2107
    /\ calls[1].date.month = 11
    /\ calls[1].date.day = 31
    /\ calls[1].date.hours = 23
    /\ calls[1].date.minutes = 59
    /\ calls[1].date.seconds = 59
    /\ Slice(Records[1].header, 6, 4) = <<125, 191, 159, 255>>

(***************************************************************************)
(* C12. Whenever no add call is in progress and close has not been called, *)
(* after add calls in either mode, freely mixed, that all succeeded: the   *)
(* running offset is the number of bytes appended to the shared sink; the  *)
(* running offset never decreases; and an entry's offset is assigned only  *)
(* after its header block, its content and its footer have been appended   *)
(* to the shared sink.                                                     *)
(***************************************************************************)
Quiescent ==
    /\ \A c \in Calls : calls[c].pc \in {"idle", "done"}
    /\ closing.pc = "idle"

KindsOf(c) == [i \in 1..Len(SegmentsOf(c)) |-> SegmentsOf(c)[i].kind]

C12_OffsetIsSinkLength == Quiescent => offset = TotalLen(sink)

C12_OffsetAssignedLast ==
    \A c \in Calls :
        (calls[c].pc # "done" /\ calls'[c].pc = "done") =>
            /\ sink' = sink
            /\ KindsOf(c) = IF calls[c].reader.present
                            THEN <<"header", "data", "footer">>
                            ELSE <<"header", "footer">>
            /\ TotalLen(SegmentsOf(c)) = calls'[c].fileEntry.length
            /\ files[MapIndex(files, calls[c].name)].file = Null
                 \/ files[MapIndex(files, calls[c].name)].file.offset = Undefined
            /\ files'[MapIndex(files', calls[c].name)].file.offset = offset
            /\ offset' = offset + calls'[c].fileEntry.length

C12_RunningOffset ==
    /\ []C12_OffsetIsSinkLength
    /\ [][offset' >= offset /\ C12_OffsetAssignedLast]_vars

C12_Witness ==
    /\ Quiescent
    /\ Made = Calls
    /\ \E c, d \in Calls : calls[c].options.bufferedWrite /\ ~calls[d].options.bufferedWrite
    /\ SinkOrder # reserved
    /\ offset = TotalLen(sink)
    /\ offset > 0

(***************************************************************************)
(* C13. When close is called while an add call is in progress, its name    *)
(* reserved and its record not completed, close completes without error    *)
(* and writes a central directory and an entry count that cover exactly    *)
(* the completed entries, leaving out the one in progress, and the         *)
(* declared central-directory offset is the running offset of that moment. *)
(***************************************************************************)
Completed == {i \in 1..Len(files) : files[i].file # Null}

\* the step is a call of close that finds a placeholder in the collection
EarlyClose ==
    /\ calls' = calls
    /\ closing.pc \notin {"directory", "comment"}
    /\ closing' # closing
    /\ Completed # 1..Len(files)

C13_EarlyCloseStep ==
    EarlyClose =>
        /\ closing'.error = "none"
        /\ closing'.pc = "directory"
        /\ Len(Records') = Cardinality(Completed)
        /\ GetUint16LE(closing'.array, Trailer' + 8) = Cardinality(Completed)
        /\ GetUint16LE(closing'.array, Trailer' + 10) = Cardinality(Completed)
        /\ GetUint32LE(closing'.array, Trailer' + 16) = offset

C13_EarlyCloseOmitsPending == [][C13_EarlyCloseStep]_vars

(***************************************************************************)
(* C14. When an add call fails after it reserved its name (the sink, the   *)
(* content source or the pipeline raises an error during encoding), the    *)
(* reservation is removed: afterwards the entry collection holds completed *)
(* records only, so that a later add of the name is no duplicate and close *)
(* meets no placeholder.                                                   *)
(***************************************************************************)
C14_FailedReservationRemoved ==
    (\A c \in Calls : calls[c].pc \in {"idle", "done", "failed", "duplicate"}) =>
        /\ Completed = 1..Len(files)
        /\ \A c \in Calls :
              (calls[c].pc = "failed" /\ \E i \in 1..Len(reserved) : reserved[i] = c)
                  => ~MapHas(files, calls[c].name)

(***************************************************************************)
(* C15. Once close has completed, the writer is finalized: every later add *)
(* call is rejected with an InvalidStateError, appends no bytes to the     *)
(* shared sink after the end-of-central-directory record, and leaves the   *)
(* entry collection and the running offset as they were at close.          *)
(***************************************************************************)
\* add has no line that raises an InvalidStateError: no call gets this position
InvalidState == "invalidState"

C15_AddAfterCloseStep ==
    \A c \in Calls :
        (closing.pc = "done" /\ calls[c].pc = "idle" /\ calls'[c].pc # "idle") =>
            /\ calls'[c].pc = InvalidState
            /\ sink' = sink
            /\ files' = files
            /\ offset' = offset

C15_AddAfterCloseRejected ==
    /\ [](closing.pc = "done" => sink[Len(sink)].owner = 0)
    /\ [][C15_AddAfterCloseStep]_vars

(***************************************************************************)
(* C16. For every entry that had a content source, the compressed-length   *)
(* and original-size fields of its central-directory record equal the      *)
(* values in the entry's 16-byte footer, which are the length the pipeline *)
(* returned and the size of the source; when the entry is not encrypted    *)
(* and the pipeline returned a signature, the record's checksum field      *)
(* equals the footer's checksum.  For every entry without content source   *)
(* the three fields are zero in both places.                               *)
(***************************************************************************)
C16_DirectoryCarriesFooter ==
    (CloseWritten /\ AllSucceeded /\ Len(Records) = Len(reserved)) =>
        \A i \in 1..Len(reserved) :
            LET call == calls[reserved[i]]
                header == Records[i].header
                footer == FooterOf(reserved[i])
                encrypted == call.options.password.defined /\ call.options.password.length > 0
            IN  IF call.reader.present
                THEN /\ GetUint32LE(header, 14) = GetUint32LE(footer, 8)
                     /\ GetUint32LE(footer, 8) = call.result.length
                     /\ GetUint32LE(header, 18) = GetUint32LE(footer, 12)
                     /\ GetUint32LE(footer, 12) = call.reader.size
                     /\ (~encrypted /\ call.result.hasSignature) =>
                            /\ GetUint32LE(header, 10) = GetUint32LE(footer, 4)
                            /\ GetUint32LE(footer, 4) = call.result.signature
                ELSE /\ Slice(header, 10, 12) = Zeros(12)
                     /\ Slice(footer, 4, 12) = Zeros(12)

C16_Witness ==
    /\ closing.pc = "done"
    /\ CloseWritten
    /\ AllSucceeded
    /\ Len(Records) = 2
    /\ calls[reserved[1]].reader.present
    /\ calls[reserved[1]].result.length > 0
    /\ calls[reserved[1]].result.hasSignature
    /\ GetUint32LE(Records[1].header, 10) = 305419896
    /\ GetUint32LE(Records[1].header, 14) = MaxContentLen
    /\ ~calls[reserved[2]].reader.present

(***************************************************************************)
(* C17. In close, for every collection of completed entries: the central-  *)
(* directory length written in the trailer is the sum over the entries of  *)
(* 46 + name length + comment length + extra-field length; the cursor      *)
(* after the last record is that sum, so that the trailer starts there and *)
(* the array of that sum + 22 bytes holds every write; and in each record  *)
(* the name, the extra field and the comment follow the 46-byte fixed part *)
(* in this order.                                                          *)
(***************************************************************************)
RECURSIVE SumOfRecordSizes(_)
SumOfRecordSizes(n) ==
    IF n = 0 THEN 0
    ELSE SumOfRecordSizes(n - 1)
             + 46 + Len(files[n].file.filename) + Len(files[n].file.comment)
             + Len(files[n].file.extraField)

C17_DirectoryLayout ==
    (CloseWritten /\ Completed = 1..Len(files)) =>
        LET total == SumOfRecordSizes(Len(files))
        IN  /\ Len(closing.array) = total + 22
            /\ GetUint32BE(closing.array, total) = 1347093766
            /\ GetUint32LE(closing.array, total + 12) = total
            /\ Len(Records) = Len(files)
            /\ \A i \in 1..Len(files) :
                  LET start == SumOfRecordSizes(i - 1)
                      file == files[i].file
                      n == Len(file.filename)
                      m == Len(file.extraField)
                  IN  /\ GetUint32BE(closing.array, start) = 1347092738
                      /\ Slice(closing.array, start + 46, n) = file.filename
                      /\ Slice(closing.array, start + 46 + n, m) = file.extraField
                      /\ Slice(closing.array, start + 46 + n + m, Len(file.comment))
                             = file.comment
                      /\ Records[i].length = SumOfRecordSizes(i) - start

C17_Witness ==
    /\ closing.pc = "done"
    /\ CloseWritten
    /\ Len(files) = MaxCalls
    /\ Completed = 1..Len(files)
    /\ files[1].file.comment = <<195, 169>>
    /\ files[1].file.extraField = <<202, 254, 0, 0>>
    /\ files[2].file.comment = <<>>
    /\ Trailer = SumOfRecordSizes(MaxCalls)

(***************************************************************************)
(* C18. For every value of options.password (absent, the empty string, an  *)
(* empty byte sequence, non-empty): the entry is marked encrypted in its   *)
(* header, by the encrypted signature and the 11-byte AES extra field, if  *)
(* and only if the pipeline is told to encrypt (outputEncrypted); and the  *)
(* pipeline is told to emit a checksum (outputSigned) if and only if the   *)
(* entry is not marked encrypted.                                          *)
(***************************************************************************)
MarkedEncrypted(c) ==
    /\ Slice(calls[c].fileEntry.headerArray, 0, 5) = <<51, 0, 9, 0, 99>>
    /\ Len(calls[c].fileEntry.extraField) = 11
    /\ Slice(calls[c].fileEntry.extraField, 0, 2) = <<1, 153>>

C18_MarkAgreesWithPipeline ==
    \A c \in Calls :
        (calls[c].pc \in {"data", "footer", "flush", "done"} /\ calls[c].reader.present) =>
            /\ MarkedEncrypted(c) <=> calls[c].codec.outputEncrypted
            /\ calls[c].codec.outputSigned <=> ~MarkedEncrypted(c)

(***************************************************************************)
(* C19. In every sequence of add and close calls, init has been called on  *)
(* the shared sink before the first byte is written to it, also when the   *)
(* archive is built with bufferedWrite add calls only, and when close is   *)
(* called on a writer to which nothing was added.                          *)
(***************************************************************************)
C19_SinkInitializedBeforeWrite == ~uninitWrite

(***************************************************************************)
(* C20. In bufferedWrite mode, when the encoding of an entry fails (the    *)
(* content source or the pipeline raises an error), the add call fails     *)
(* with that error, no byte of the entry is appended to the shared sink,   *)
(* and the running offset and the offsets of the entries completed before  *)
(* stay as they were.                                                      *)
(***************************************************************************)
\* the step is the failure of the encoding of a bufferedWrite call
EncodingFails(c) ==
    /\ calls[c].options # Null
    /\ calls[c].options.bufferedWrite
    /\ calls[c].pc = "data"
    /\ calls'[c].pc = "failed"

C20_FailureStep ==
    \A c \in Calls :
        EncodingFails(c) =>
            /\ calls'[c].error = "pipeline"
            /\ sink' = sink
            /\ offset' = offset
            /\ files' = files
            /\ SegmentsOf(c) = <<>>

\* a failed bufferedWrite call whose record was not completed has no byte in
\* the shared sink; none of its calls past the failure reaches line 69
C20_NothingOfFailedEntry ==
    \A c \in Calls :
        (/\ calls[c].pc = "failed"
         /\ calls[c].options.bufferedWrite
         /\ files[MapIndex(files, calls[c].name)].file = Null)
            => SegmentsOf(c) = <<>>

C20_BufferedFailureWritesNothing ==
    /\ []C20_NothingOfFailedEntry
    /\ [][C20_FailureStep]_vars

C20_Witness ==
    /\ Settled
    /\ \E c \in Calls :
          /\ calls[c].pc = "failed"
          /\ calls[c].options.bufferedWrite
          /\ calls[c].reader.present
          /\ calls[c].writer # <<>>
          /\ calls[c].writer[Len(calls[c].writer)].kind = "data"
          /\ files[MapIndex(files, calls[c].name)].file = Null
    /\ \E d \in Calls : calls[d].pc = "done"
    /\ offset > 0
    /\ offset = TotalLen(sink)

====
